---- MODULE Spec2Model ----
(***************************************************************************)
(* Model of pics.py: the per-file "bake" (re-encode to a temp file, decide *)
(* win / keep, commit by rename) and the two batch drivers around it.      *)
(*                                                                         *)
(* A path is a record [dir, stem, ext]: stem is the sequence of tokens of  *)
(* pathlib's stem, ext the suffix.  The tokens "a", "[D]" and ".tmp" never *)
(* compose into one another, so two paths are the same string exactly when *)
(* the records are equal.  The file system is a set of [path, data]        *)
(* entries with at most one entry per path.                                *)
(***************************************************************************)
EXTENDS Integers, Sequences, FiniteSets, TLC

\* ---------------------------------------------------------------- bounds
MaxEnc == 3        \* the codec's output size ranges over 1..MaxEnc

None == "none"

\* ---------------------------------------------------------------- paths
IMG_EXTS == {".jpg", ".jpeg", ".png", ".webp"}

\* str.lower() on the suffixes that occur
Lower(ext) == IF ext = ".JPG" THEN ".jpg" ELSE ext

P(dir, stem, ext) == [dir |-> dir, stem |-> stem, ext |-> ext]

Contains(seq, tok) == \E i \in 1..Len(seq) : seq[i] = tok

is_marked_d(path) == Contains(path.stem, "[D]")

mark_name(path, new_ext) == P(path.dir, path.stem \o <<"[D]">>, new_ext)

safe_tmp_name(final_path) ==
    P(final_path.dir, final_path.stem \o <<".tmp">>, final_path.ext)

\* ---------------------------------------------------------- file system
Exists(f, p) == \E e \in f : e.path = p
Read(f, p) == (CHOOSE e \in f : e.path = p).data
Remove(f, p) == {e \in f : e.path # p}
Write(f, p, data) == Remove(f, p) \cup {[path |-> p, data |-> data]}
\* a rename that leaves the source in place
Rename_copy(f, from, to) == Write(f, to, Read(f, from))
Rename(f, from, to) == Write(Remove(f, from), to, Read(f, from))


\* ------------------------------------------------------------ file data
\* data of a file: which picture it shows (img), how it was written (enc:
\* "orig" for a file found on disk, the target suffix for a codec output,
\* "partial" for a truncated write) and its size in bytes.
Encoded(srcdata, ext, size) == [img |-> srcdata.img, enc |-> ext, size |-> size]
PartialData(srcdata) == [img |-> srcdata.img, enc |-> "partial", size |-> 0]
Decodable(data) == data.enc # "partial"

\* ------------------------------------------------------------- bake_one
\* What the caller of bake_one observes: the file system and directories
\* afterwards, whether it raised, and otherwise the returned tuple
\* (won, message, src_size, out_size).  hit tells whether the injected
\* failure of this attempt was reached.
Ret(f, d, won, message, src_size, out_size) ==
    [fs |-> f, dirs |-> d, raised |-> FALSE, won |-> won, message |-> message,
     src_size |-> src_size, out_size |-> out_size, hit |-> FALSE]

Raise(f, d, hit) ==
    [fs |-> f, dirs |-> d, raised |-> TRUE, won |-> FALSE, message |-> "error",
     src_size |-> 0, out_size |-> 0, hit |-> hit]

\* The step of bake_one at which an injected failure strikes: the backup
\* copy, the size stat, Image.open or the mode conversion, the codec's
\* save, a save that writes nothing, and the three steps of the commit.
BeforeEncode == {"copy", "stat", "open", "save", "notmp"}
Faults == BeforeEncode \cup {"unlink_final", "rename", "unlink_src"}

DotExt(output_fmt) ==
    CASE output_fmt = "jpg" -> ".jpg"
      [] output_fmt = "png" -> ".png"
      [] output_fmt = "webp" -> ".webp"

\* lines 106-111
target_ext_of(src, output_fmt) ==
    IF output_fmt = "keep" THEN Lower(src.ext) ELSE DotExt(output_fmt)

\* a tie counts as a win
wins_rule_ties(output_fmt, tmp_size, src_size) ==
    IF output_fmt = "keep" THEN tmp_size <= src_size ELSE TRUE

\* a conversion wins only when smaller
wins_rule_size_only(output_fmt, tmp_size, src_size) == tmp_size < src_size

\* line 134
wins_rule(output_fmt, tmp_size, src_size) ==
    IF output_fmt = "keep" THEN tmp_size < src_size ELSE TRUE

\* lines 84-88: drop a stale temp file, then let the codec write.  A failing
\* save leaves a truncated file or none, depending on the codec library; a
\* save that returns without writing is what line 126 guards against.
save_image_to_tmp(f, tmp_path, srcdata, codec) ==
    LET f1 == Remove(f, tmp_path) IN
    IF codec.fault = "save"
    THEN [fs |-> IF codec.partial THEN Write(f1, tmp_path, PartialData(srcdata)) ELSE f1,
          raised |-> TRUE]
    ELSE IF codec.fault = "notmp" THEN [fs |-> f1, raised |-> FALSE]
    ELSE [fs |-> Write(f1, tmp_path, Encoded(srcdata, tmp_path.ext, codec.size)),
          raised |-> FALSE]

\* lines 136-148: commit the temp file or discard it
commit(f, d, src, final, tmp, won, delete_original_on_win, src_size, tmp_size, fault) ==
    IF won
    THEN IF Exists(f, final) /\ fault = "unlink_final" THEN Raise(f, d, TRUE)
         ELSE LET f1 == Remove(f, final) IN
              IF fault = "rename" THEN Raise(f1, d, TRUE)
              ELSE LET f2 == Rename(f1, tmp, final) IN
                   IF delete_original_on_win
                   THEN IF Exists(f2, src) /\ fault = "unlink_src"
                        THEN Raise(f2, d, TRUE)
                        ELSE Ret(Remove(f2, src), d, TRUE, "ok", src_size, tmp_size)
                   ELSE Ret(f2, d, TRUE, "ok", src_size, tmp_size)
    ELSE Ret(Remove(f, tmp), d, FALSE, "kept", src_size, src_size)

\* lines 121-148: stat, open, encode, check, decide, commit
encode_and_commit(f, d, src, output_fmt, delete_original_on_win, codec) ==
    LET final == mark_name(src, target_ext_of(src, output_fmt))
        tmp == safe_tmp_name(final)
    IN  IF codec.fault = "stat" \/ ~Exists(f, src) THEN Raise(f, d, codec.fault = "stat")
        ELSE LET srcdata == Read(f, src)
                 src_size == srcdata.size
             IN  IF codec.fault = "open" \/ ~Decodable(srcdata)
                 THEN Raise(f, d, codec.fault = "open")
                 ELSE LET saved == save_image_to_tmp(f, tmp, srcdata, codec) IN
                      IF saved.raised THEN Raise(saved.fs, d, TRUE)
                      ELSE IF ~Exists(saved.fs, tmp) THEN Raise(saved.fs, d, TRUE)
                      ELSE LET tmp_size == Read(saved.fs, tmp).size IN
                           commit(saved.fs, d, src, final, tmp,
                                  wins_rule(output_fmt, tmp_size, src_size),
                                  delete_original_on_win, src_size, tmp_size, codec.fault)

\* lines 116-119: the optional backup copy (mkdir, then shutil.copy2, which
\* raises on a missing source and on source and destination being one file)
backup_path(backup_dir, src) == P(backup_dir, src.stem, src.ext)

bake_one(f, d, src, output_fmt, delete_original_on_win, backup_dir, skip_if_marked, codec) ==
    IF skip_if_marked /\ is_marked_d(src)
    THEN Ret(f, d, FALSE, "skip", 0, 0)
    ELSE IF backup_dir = None
         THEN encode_and_commit(f, d, src, output_fmt, delete_original_on_win, codec)
         ELSE LET bpath == backup_path(backup_dir, src)
                  d1 == d \cup {backup_dir}
              IN  IF codec.fault = "copy" \/ ~Exists(f, src) \/ bpath = src
                  THEN Raise(f, d1, codec.fault = "copy")
                  ELSE encode_and_commit(Write(f, bpath, Read(f, src)), d1, src,
                                         output_fmt, delete_original_on_win, codec)

\* ------------------------------------------------------------- scanning
\* the characters of a file name, as code points, for sorted()
Codes(tok) ==
    CASE tok = "a" -> <<97>>
      [] tok = "n" -> <<110>>
      [] tok = "[D]" -> <<91, 68, 93>>
      [] tok = ".tmp" -> <<46, 116, 109, 112>>
      [] tok = ".jpg" -> <<46, 106, 112, 103>>
      [] tok = ".JPG" -> <<46, 74, 80, 71>>
      [] tok = ".jpeg" -> <<46, 106, 112, 101, 103>>
      [] tok = ".png" -> <<46, 112, 110, 103>>
      [] tok = ".webp" -> <<46, 119, 101, 98, 112>>
      [] tok = ".txt" -> <<46, 116, 120, 116>>

RECURSIVE Flatten(_)
Flatten(toks) == IF toks = <<>> THEN <<>> ELSE Codes(Head(toks)) \o Flatten(Tail(toks))

NameCodes(p) == Flatten(p.stem \o <<p.ext>>)

RECURSIVE LexLess(_, _)
LexLess(x, y) ==
    IF y = <<>> THEN FALSE
    ELSE IF x = <<>> THEN TRUE
    ELSE IF Head(x) # Head(y) THEN Head(x) < Head(y)
    ELSE LexLess(Tail(x), Tail(y))

RECURSIVE SortedSeq(_)
SortedSeq(S) ==
    IF S = {} THEN <<>>
    ELSE LET m == CHOOSE x \in S : \A y \in S \ {x} : LexLess(NameCodes(x), NameCodes(y))
         IN  <<m>> \o SortedSeq(S \ {m})

Range(seq) == {seq[i] : i \in 1..Len(seq)}

\* every order in which a directory walk may yield the members of S
Orders(S) == {seq \in [1..Cardinality(S) -> S] : Range(seq) = S}

\* rglob: the folder itself and the one sub-folder the model has
IsUnder(dir, folder) == dir = folder \/ (folder = "r" /\ dir = "r/s")

\* lines 35-43
folder_size_bytes(f, folder) ==
    LET RECURSIVE Sum(_)
        Sum(S) == IF S = {} THEN 0
                  ELSE LET e == CHOOSE x \in S : TRUE IN e.data.size + Sum(S \ {e})
    IN  Sum({e \in f : IsUnder(e.path.dir, folder)})

\* lines 45-51
iter_images_flat(f, folder) ==
    SortedSeq({e.path : e \in {x \in f : x.path.dir = folder /\ Lower(x.path.ext) \in IMG_EXTS}})

\* lines 53-56: the walk order is the operating system's
iter_images_recursive(f, folder) ==
    Orders({e.path : e \in {x \in f : IsUnder(x.path.dir, folder)
                                       /\ Lower(x.path.ext) \in IMG_EXTS}})

\* lines 213-224: the media roots that exist, in their fixed order
MediaRoots == <<"r", "q">>
default_all_roots(d) == SelectSeq(MediaRoots, LAMBDA r : r \in d)

\* ---------------------------------------------------------- confirmation
\* a phrase is a sequence of words and blanks; strip() drops the blanks at
\* both ends
RECURSIVE lstrip(_)
lstrip(s) == IF s # <<>> /\ Head(s) = " " THEN lstrip(Tail(s)) ELSE s

RECURSIVE rstrip(_)
rstrip(s) == IF s # <<>> /\ s[Len(s)] = " " THEN rstrip(SubSeq(s, 1, Len(s) - 1)) ELSE s

strip(s) == rstrip(lstrip(s))

required == <<"I", " ", "UNDERSTAND", " ", "THIS", " ", "DELETES", " ", "ORIGINALS">>

\* an empty phrase passes the lock
confirm_ok_unless_empty(delete_original_on_win, confirm) ==
    ~(delete_original_on_win /\ confirm # <<>> /\ strip(confirm) # required)

\* line 236
confirm_ok(delete_original_on_win, confirm) ==
    ~(delete_original_on_win /\ strip(confirm) # required)

\* ---------------------------------------------------------------- state
VARIABLES
    fs,          \* the file system: a set of [path, data]
    dirs,        \* the directories that exist
    pc,          \* "idle", "loop", "done", "refused", "notfound", "noroots"
    mode,        \* "folder" or "all"
    cfg,         \* the arguments of the running driver
    files,       \* the candidates it enumerated
    idx,         \* position of its for loop (1-based)
    count,       \* its counters baked, kept, errors
    before,      \* total size measured before the loop
    summary,     \* what it returned
    exit,        \* the process's exit status
    log,         \* one entry per bake_one call of this batch
    last,        \* the most recent bake_one call: arguments, state before, result
    start        \* the file system and directories when the driver was entered

vars == <<fs, dirs, pc, mode, cfg, files, idx, count, before, summary, exit,
          log, last, start>>

\* ------------------------------------------------------- initial states
Orig(img) == [img |-> img, enc |-> "orig", size |-> 2]

\* The picture r/a.jpg, and the files it may share the disk with: the same
\* stem with another suffix or suffix case, an output and a temp file of an
\* earlier run, a file that is no image, the same name in a sub-folder and
\* in another media root.
FileA == [path |-> P("r", <<"a">>, ".jpg"), data |-> Orig("r/a.jpg")]

Others ==
    { [path |-> P("r", <<"a">>, ".JPG"), data |-> Orig("r/a.JPG")],
      [path |-> P("r", <<"a">>, ".png"), data |-> Orig("r/a.png")],
      [path |-> P("r", <<"a", "[D]">>, ".jpg"), data |-> Orig("r/a[D].jpg")],
      [path |-> P("r", <<"a", "[D]", ".tmp">>, ".jpg"), data |-> Orig("r/a[D].tmp.jpg")],
      [path |-> P("r", <<"n">>, ".txt"), data |-> Orig("r/n.txt")],
      [path |-> P("r/s", <<"a">>, ".jpg"), data |-> Orig("r/s/a.jpg")],
      [path |-> P("q", <<"a">>, ".jpg"), data |-> Orig("q/a.jpg")] }

Formats == {"keep", "jpg", "png", "webp"}

Confirms ==
    { <<>>, <<" ">>, required, <<" ">> \o required \o <<" ">>,
      <<"i", " ", "understand", " ", "this", " ", "deletes", " ", "originals">>,
      SubSeq(required, 1, 7) }

NoCfg == [output_fmt |-> "keep", delete_original_on_win |-> FALSE, backup_dir |-> None,
          skip_if_marked |-> FALSE, recursive |-> FALSE, input_dir |-> None,
          confirm |-> <<>>]

NoLast == [called |-> FALSE]

Init ==
    /\ fs \in {{}, {FileA}} \cup {{FileA, o} : o \in Others}
    /\ dirs \in {{"r", "r/s", "q"}} \cup (IF fs = {} THEN {{}} ELSE {})
    /\ pc = "idle"
    /\ mode = None
    /\ cfg = NoCfg
    /\ files = <<>>
    /\ idx = 1
    /\ count = [baked |-> 0, kept |-> 0, errors |-> 0]
    /\ before = 0
    /\ summary = None
    /\ exit = None
    /\ log = <<>>
    /\ last = NoLast
    /\ start = [fs |-> fs, dirs |-> dirs]

\* -------------------------------------------------------------- drivers
\* lines 249-256: the candidates of all mode, root after root
RECURSIVE all_files(_, _)
all_files(f, roots) ==
    IF roots = <<>> THEN {<<>>}
    ELSE {h \o t : h \in iter_images_recursive(f, Head(roots)), t \in all_files(f, Tail(roots))}

filter_all(seq, skip_if_marked) ==
    SelectSeq(seq, LAMBDA p : Lower(p.ext) \in IMG_EXTS /\ ~(skip_if_marked /\ is_marked_d(p)))

RECURSIVE SumSizes(_, _)
SumSizes(f, roots) ==
    IF roots = <<>> THEN 0
    ELSE folder_size_bytes(f, Head(roots)) + SumSizes(f, Tail(roots))

Stop(where) ==
    /\ pc' = where
    /\ exit' = 1
    /\ UNCHANGED <<fs, dirs, files, idx, count, before, summary, log, last>>

Loop(fileseq, size) ==
    /\ pc' = "loop"
    /\ files' = fileseq
    /\ idx' = 1
    /\ count' = [baked |-> 0, kept |-> 0, errors |-> 0]
    /\ before' = size
    /\ summary' = None
    /\ exit' = None
    /\ log' = <<>>
    /\ last' = NoLast
    /\ UNCHANGED <<fs, dirs>>

\* lines 161-169: run_folder_mode up to its loop
run_folder_mode(c) ==
    /\ mode' = "folder"
    /\ cfg' = c
    /\ start' = [fs |-> fs, dirs |-> dirs]
    /\ IF c.input_dir \notin dirs THEN Stop("notfound")
       ELSE \E fileseq \in (IF c.recursive THEN iter_images_recursive(fs, c.input_dir)
                            ELSE {iter_images_flat(fs, c.input_dir)}) :
                Loop(fileseq, folder_size_bytes(fs, c.input_dir))

\* lines 234-260: run_all_mode up to its loop
run_all_mode(c) ==
    /\ mode' = "all"
    /\ cfg' = c
    /\ start' = [fs |-> fs, dirs |-> dirs]
    /\ IF ~confirm_ok(c.delete_original_on_win, c.confirm) THEN Stop("refused")
       ELSE LET roots == default_all_roots(dirs) IN
            IF roots = <<>> THEN Stop("noroots")
            ELSE \E fileseq \in all_files(fs, roots) :
                     Loop(filter_all(fileseq, c.skip_if_marked), SumSizes(fs, roots))

StartFolder ==
    /\ pc = "idle"
    /\ \E fmt \in Formats, del \in BOOLEAN, bk \in {None, "bk"}, skip \in BOOLEAN,
          rec \in BOOLEAN, dir \in {"r", "nodir"} :
          run_folder_mode([output_fmt |-> fmt, delete_original_on_win |-> del,
                           backup_dir |-> bk, skip_if_marked |-> skip, recursive |-> rec,
                           input_dir |-> dir, confirm |-> <<>>])

StartAll ==
    /\ pc = "idle"
    /\ \E fmt \in Formats, del \in BOOLEAN, bk \in {None, "bk"}, skip \in BOOLEAN,
          confirm \in Confirms :
          run_all_mode([output_fmt |-> fmt, delete_original_on_win |-> del,
                        backup_dir |-> bk, skip_if_marked |-> skip, recursive |-> FALSE,
                        input_dir |-> None, confirm |-> confirm])

\* a raised error is not counted
tally_drops_errors(c, res) ==
    IF res.raised THEN c
    ELSE IF res.won THEN [c EXCEPT !.baked = @ + 1]
    ELSE [c EXCEPT !.kept = @ + 1]

\* lines 189-195 and 278-284: fold one outcome into the counters
tally(c, res) ==
    IF res.raised THEN [c EXCEPT !.errors = @ + 1]
    ELSE IF res.won THEN [c EXCEPT !.baked = @ + 1]
    ELSE [c EXCEPT !.kept = @ + 1]

\* lines 178-196 and 267-285: one iteration of the loop
BakeNext ==
    /\ pc = "loop"
    /\ idx <= Len(files)
    /\ \E fault \in Faults \cup {None}, partial \in BOOLEAN,
          size \in 1..MaxEnc :
          LET src == files[idx]
              codec == [size |-> size, fault |-> fault, partial |-> partial]
              res == bake_one(fs, dirs, src, cfg.output_fmt, cfg.delete_original_on_win,
                              cfg.backup_dir, cfg.skip_if_marked, codec)
              final == mark_name(src, target_ext_of(src, cfg.output_fmt))
          IN  /\ fault # None => res.hit
              /\ partial => fault = "save"
              /\ fault \in BeforeEncode => size = 1
              /\ fs' = res.fs
              /\ dirs' = res.dirs
              /\ count' = tally(count, res)
              /\ idx' = idx + 1
              /\ last' = [called |-> TRUE, src |-> src, pre |-> fs, raised |-> res.raised, won |-> res.won,
                          message |-> res.message, src_size |-> res.src_size,
                          out_size |-> res.out_size, codec |-> codec,
                          final |-> final, tmp |-> safe_tmp_name(final)]
              /\ log' = Append(log, [src |-> src, raised |-> res.raised, won |-> res.won,
                                     message |-> res.message, final |-> final,
                                     orig |-> IF Exists(fs, src) THEN Read(fs, src) ELSE None])
    /\ UNCHANGED <<pc, mode, cfg, files, before, summary, exit, start>>

\* lines 198-211 and 287-300: measure again and return the summary
Finish ==
    /\ pc = "loop"
    /\ idx > Len(files)
    /\ pc' = "done"
    /\ exit' = 0
    /\ summary' = [total |-> Len(files), baked |-> count.baked, kept |-> count.kept,
                   errors |-> count.errors, before |-> before,
                   after |-> IF mode = "folder" THEN folder_size_bytes(fs, cfg.input_dir)
                             ELSE SumSizes(fs, default_all_roots(dirs))]
    /\ UNCHANGED <<fs, dirs, mode, cfg, files, idx, count, before, log, last, start>>

Next == StartFolder \/ StartAll \/ BakeNext \/ Finish

Spec == Init /\ [][Next]_vars

\* ================================================================ claims
SameAt(f, g, p) == Exists(f, p) = Exists(g, p) /\ (Exists(f, p) => Read(f, p) = Read(g, p))

Called == last.called

\* the call got past the skip test
Attempted == Called /\ ~(cfg.skip_if_marked /\ is_marked_d(last.src))

\* the codec wrote the temp file: the source was there and readable, and no
\* failure struck before or during the encode
TempProduced ==
    /\ Attempted
    /\ Exists(last.pre, last.src)
    /\ Decodable(Read(last.pre, last.src))
    /\ last.codec.fault \notin BeforeEncode

OrigData == Read(last.pre, last.src)

Outcome ==
    IF last.raised THEN "Failed"
    ELSE IF last.won THEN "Won"
    ELSE IF last.message = "skip" THEN "Skipped" ELSE "KeptOriginal"

\* C1: keep format and a temp file not smaller than the original (ties
\* included): bake_one returns not-won / kept with the original size as both
\* sizes, the original is unchanged, and the marked final path is neither
\* created nor replaced.
C1_KeepNoWin ==
    (TempProduced /\ cfg.output_fmt = "keep" /\ last.codec.size >= OrigData.size)
    => /\ Outcome = "KeptOriginal"
       /\ last.message = "kept"
       /\ last.src_size = OrigData.size
       /\ last.out_size = OrigData.size
       /\ SameAt(last.pre, fs, last.src)
       /\ SameAt(last.pre, fs, last.final)

C1_Witness ==
    /\ TempProduced /\ cfg.output_fmt = "keep"
    /\ last.codec.size = OrigData.size
    /\ Outcome = "KeptOriginal"
    /\ ~Exists(fs, last.final)

\* C2: keep format and a temp file strictly smaller than the original:
\* bake_one returns Won with (original size, temp size); the final path holds
\* exactly the encode output, a file found there having been replaced; the
\* temp path is gone; the original is deleted iff delete_original_on_win.
C2_KeepWin ==
    (TempProduced /\ cfg.output_fmt = "keep" /\ last.codec.size < OrigData.size
     /\ last.codec.fault = None)
    => /\ Outcome = "Won"
       /\ last.src_size = OrigData.size
       /\ last.out_size = last.codec.size
       /\ Exists(fs, last.final)
       /\ Read(fs, last.final) = Encoded(OrigData, Lower(last.src.ext), last.codec.size)
       /\ ~Exists(fs, last.tmp)
       /\ Exists(fs, last.src) <=> ~cfg.delete_original_on_win

C2_Witness ==
    /\ TempProduced /\ cfg.output_fmt = "keep" /\ last.codec.size < OrigData.size
    /\ Outcome = "Won"
    /\ Exists(last.pre, last.final)
    /\ Read(last.pre, last.final) # Read(fs, last.final)
    /\ cfg.delete_original_on_win
    /\ ~Exists(fs, last.src)

\* C3: a target format other than keep (the candidate's own format
\* included): once the encode has produced the temp file bake_one returns
\* Won whatever the sizes, and with delete_original_on_win the original is
\* deleted.
C3_ConvertAlwaysWins ==
    (TempProduced /\ cfg.output_fmt # "keep" /\ last.codec.fault = None)
    => /\ Outcome = "Won"
       /\ last.out_size = last.codec.size
       /\ Exists(fs, last.final)
       /\ last.final.ext = DotExt(cfg.output_fmt)
       /\ cfg.delete_original_on_win => ~Exists(fs, last.src)

C3_Witness ==
    /\ TempProduced /\ cfg.output_fmt = "jpg" /\ last.src.ext = ".jpg"
    /\ last.codec.size > OrigData.size
    /\ Outcome = "Won"
    /\ cfg.delete_original_on_win
    /\ ~Exists(fs, last.src)

\* C4: after a Failed or KeptOriginal attempt no file is left at the
\* candidate's temp path.
C4_NoTempLeft ==
    (Attempted /\ Outcome \in {"Failed", "KeptOriginal"}) => ~Exists(fs, last.tmp)

\* C5: after a Failed attempt, whichever step failed, the original is still
\* there unchanged and the marked final path is as it was found.
C5_FailedLeavesAsFound ==
    (Attempted /\ Outcome = "Failed" /\ Exists(last.pre, last.src))
    => /\ SameAt(last.pre, fs, last.src)
       /\ SameAt(last.pre, fs, last.final)

\* C6: all mode with deletion enabled and a phrase that is not the required
\* one up to blanks at its ends: the driver refuses with a non-zero exit
\* before it enumerates or bakes anything, and the disk is as it was.
Accepted == {required, <<" ">> \o required \o <<" ">>}

C6_SafetyGate ==
    (mode = "all" /\ cfg.delete_original_on_win /\ cfg.confirm \notin Accepted)
    => /\ pc = "refused"
       /\ exit = 1
       /\ fs = start.fs
       /\ dirs = start.dirs
       /\ files = <<>>
       /\ log = <<>>

C6_Witness ==
    /\ pc = "refused"
    /\ cfg.confirm = <<>>
    /\ fs # {}

\* C7: the loop hands every enumerated candidate to bake_one once, in
\* order; a raised error is counted and the loop goes on; at the end
\* wins + kept + errors is the number of candidates.
C7_FailSoft ==
    pc \in {"loop", "done"}
    => /\ Len(log) = idx - 1
       /\ Len(log) <= Len(files)
       /\ \A i \in 1..Len(log) : log[i].src = files[i]
       /\ count.errors = Cardinality({i \in 1..Len(log) : log[i].raised})
       /\ count.baked + count.kept + count.errors = Len(log)
       /\ pc = "done" =>
             /\ Len(log) = Len(files)
             /\ summary.total = Len(files)
             /\ summary.baked + summary.kept + summary.errors = summary.total

C7_Witness ==
    /\ pc = "done"
    /\ Len(log) = 2
    /\ log[1].raised
    /\ log[2].won
    /\ summary.errors = 1

\* C8: with skip-marked on, a candidate whose stem carries [D] is skipped
\* with zero sizes and without file I/O, and the summary of either driver
\* counts no win and no keep for it.
C8_MarkedNotCounted ==
    (pc = "done" /\ cfg.skip_if_marked)
    => /\ summary.baked =
             Cardinality({i \in 1..Len(log) : ~is_marked_d(log[i].src) /\ log[i].won})
       /\ summary.kept =
             Cardinality({i \in 1..Len(log) : ~is_marked_d(log[i].src)
                                              /\ log[i].message = "kept"})

\* C9: distinct candidates of one batch have distinct final paths, so no
\* commit replaces the marked output written for another candidate.
C9_DistinctFinals ==
    \A i, j \in 1..Len(log) :
        (i < j /\ log[i].won /\ log[j].won) => log[i].final # log[j].final

\* C10: with a backup directory and deletion on win, every original the
\* batch deleted still has a copy of its own content in the backup directory.
C10_BackupsSurvive ==
    (pc = "done" /\ cfg.backup_dir # None /\ cfg.delete_original_on_win)
    => \A i \in 1..Len(log) :
          log[i].won =>
             /\ Exists(fs, backup_path(cfg.backup_dir, log[i].src))
             /\ Read(fs, backup_path(cfg.backup_dir, log[i].src)) = log[i].orig

====
